---- MODULE Spec2Model ----
(***************************************************************************)
(* Label manager of tangram-es (core/src/tile/labels/labels.cpp): worker  *)
(* threads create labels and append LabelUnits to a mutex-guarded pending  *)
(* queue; the render thread merges the queue into the authoritative list   *)
(* and runs the occlusion pass (prune, collect, broad phase, narrow phase, *)
(* resolve, finalize).  A tile owns its labels; the manager holds weak     *)
(* references only, so a label dies when its tile is evicted.              *)
(***************************************************************************)
EXTENDS Integers, Sequences, FiniteSets, TLC

\* ------------------------------------------------------------------ bounds
NWorkers == 3        \* worker threads; worker w builds tile w
PerWorker == 1       \* addTextLabel / addSpriteLabel calls made by one worker
MaxViewZoom == 1     \* the view's zoom ranges over 0..MaxViewZoom
MaxPairs == 2        \* candidate pairs one broad phase reports
SizeBits == 8        \* width given to size_t in the index arithmetic
s_maxZoom == 2       \* View::s_maxZoom, read at labels.cpp:20
MAX_LOD == 1         \* MAX_LOD, read at labels.cpp:15

Workers == 1..NWorkers
Tiles == Workers
RenderThread == NWorkers + 1
Labels == 1..(NWorkers * PerWorker)
Zooms == 0..MaxViewZoom
States == {"NONE", "WAIT_OCC"}

VARIABLES
    m_labelUnits,         \* authoritative list: sequence of LabelUnits (label ids)
    m_pendingLabelUnits,  \* pending queue: sequence of LabelUnits (0 = moved-from)
    m_mutex,              \* set of threads holding m_mutex (empty or a singleton)
    m_currentZoom,        \* zoom last stored by updateOcclusions
    label,                \* label id -> the Label object (or its freed storage)
    tileLabels,           \* tile -> labels the tile owns
    tileGone,             \* tile -> the tile was evicted
    wpc,                  \* worker -> position in addTextLabel/addSpriteLabel/addLabel
    wlabel,               \* worker -> label being added (0 = none)
    calls,                \* worker -> number of add*Label calls made
    wret,                 \* worker -> return statement the last call left through
    rpc,                  \* position of the render thread in updateOcclusions
    idx,                  \* loop index i of the scan and of the finalize loop
    aabbs,                \* candidate array: userData (Label*) of each AABB
    pairs,                \* broad-phase result: set of index pairs
    occlusions,           \* std::set<std::pair<Label*, Label*>>
    todo,                 \* pairs of occlusions the resolve loop has not visited yet
    dangling,             \* a freed label was dereferenced during this pass
    scanDead,             \* labels that were dead when the scan of this pass began
    pruned,               \* units the scan has removed
    drained               \* a merge ran after all producers had finished

\* LODDiscardFunc and the test of labels.cpp:20 applied to given zooms
VARIABLES
    lpc,                  \* "in": no input yet, "call": inputs chosen, "done": applied
    f_maxZoom,            \* argument _maxZoom
    f_zoom,               \* argument _zoom (the current zoom)
    f_tileZ,              \* _tile.getID().z
    f_lod,                \* value LODDiscardFunc returned
    f_discard             \* outcome of the test of line 20

\* intersect(aabbs, {4, 4}, {width, height}) of labels.cpp:100 taken alone
VARIABLES
    ipc,                  \* "in": the boxes are being given, "done": intersect returned
    resolution,           \* <<m_view->getWidth(), m_view->getHeight()>>
    aabbsIn,              \* the AABB array passed in
    candidates            \* the index pairs returned

\* TextStyle::buildPoint, buildLine, buildPolygon (style/textStyle.cpp)
VARIABLES
    spc,                  \* "in", "line" (inside the loop of buildLine), "done"
    builder,              \* "none", "point", "line", "polygon"
    geometry,             \* the points given so far: the Line, or the Polygon's points
    rings,                \* buildPolygon: the Polygon, a sequence of rings
    params,               \* Parameters parsed from the rule: visible, textSource
    props,                \* the feature's Properties: has a "name", its value
    text,                 \* local text
    skipOffset,           \* local skipOffset
    li,                   \* loop index i of buildLine
    buffer                \* labels added to the TextBuffer, in order

managerVars == <<m_labelUnits, m_pendingLabelUnits, m_mutex, m_currentZoom, label,
                 tileLabels, tileGone, wpc, wlabel, calls, wret, rpc, idx, aabbs,
                 pairs, occlusions, todo, dangling, scanDead, pruned, drained>>
lodVars == <<lpc, f_maxZoom, f_zoom, f_tileZ, f_lod, f_discard>>
broadVars == <<ipc, resolution, aabbsIn, candidates>>
styleVars == <<spc, builder, geometry, rings, params, props, text, skipOffset, li, buffer>>
auxVars == <<lodVars, broadVars, styleVars>>

vars == <<managerVars, auxVars>>

workerVars == <<wpc, wlabel, calls, wret>>
passVars == <<rpc, idx, aabbs, pairs, occlusions, todo, dangling, scanDead>>

\* ------------------------------------------------------------- helpers
Max(a, b) == IF a >= b THEN a ELSE b
Min(a, b) == IF a <= b THEN a ELSE b

RECURSIVE Pow(_, _)
Pow(b, e) == IF e = 0 THEN 1 ELSE b * Pow(b, e - 1)

Range(s) == {s[k] : k \in 1..Len(s)}
Count(s, x) == Cardinality({k \in 1..Len(s) : s[k] = x})

\* ------------------------------------------------------------- Label
\* solved counts the occlusionSolved() calls the label received in the current pass
Unborn == [status |-> "unborn", canOcclude |-> FALSE, state |-> "NONE",
           occluded |-> FALSE, occludedLastFrame |-> FALSE, solved |-> 0]
Freed == [Unborn EXCEPT !.status = "dead"]
\* the storage of a label after its last strong reference went; the verdict of
\* its last frame is remembered (nothing reads it from the freed storage, see Reads)
FreedOf(lab) == [Freed EXCEPT !.occludedLastFrame = lab.occludedLastFrame]
NewLabel(occ) == [status |-> "alive", canOcclude |-> occ, state |-> "NONE",
                  occluded |-> FALSE, occludedLastFrame |-> FALSE, solved |-> 0]

Alive(l) == label[l].status = "alive"

\* LabelUnit::getWeakLabel(): the label, or nullptr once it was freed
getWeakLabel(lab, u) == IF u \in Labels /\ lab[u].status = "alive" THEN u ELSE 0

\* Label::setOcclusion(true) through a raw pointer
setOcclusion(lab, l) ==
    IF lab[l].status = "alive" THEN [lab EXCEPT ![l].occluded = TRUE] ELSE lab

\* Label::occlusionSolved()
occlusionSolved(lab, l) ==
    [lab EXCEPT ![l].occludedLastFrame = lab[l].occluded,
                ![l].occluded = FALSE,
                ![l].state = "WAIT_OCC",
                ![l].solved = lab[l].solved + 1]

\* what occludedLastFrame() and getState() can return through a raw pointer
Reads(lab, l) ==
    IF lab[l].status = "alive"
    THEN {[oLF |-> lab[l].occludedLastFrame, st |-> lab[l].state]}
    ELSE [oLF : BOOLEAN, st : States]

\* ------------------------------------------------------------- LOD
TileZ(t) == t - 1

\* floor(log(-zoom + (maxZoom + 2)) / log(maxZoom + 2) * maxZoom * 0.5), for
\* 0 <= zoom <= maxZoom + 1: the largest k with
\* (maxZoom+2-zoom)^maxZoom >= (maxZoom+2)^(2k); the quotient of the logarithms
\* is at most 1, so k is at most maxZoom / 2
LODRaw(maxZoom, zoom) ==
    CHOOSE k \in 0..(maxZoom \div 2) :
        /\ Pow(maxZoom + 2 - zoom, maxZoom) >= Pow(maxZoom + 2, 2 * k)
        /\ \A j \in (k + 1)..(maxZoom \div 2) :
               Pow(maxZoom + 2 - zoom, maxZoom) < Pow(maxZoom + 2, 2 * j)

\* mutant: the result is not capped
LODDiscardFuncNoCap(maxZoom, zoom) == LODRaw(maxZoom, zoom)

\* labels.cpp:15
LODDiscardFunc(maxZoom, zoom) == Min(LODRaw(maxZoom, zoom), MAX_LOD)

\* mutant: the threshold test is off by one
LODExceededLax(t) == (m_currentZoom - TileZ(t)) > LODDiscardFunc(s_maxZoom, m_currentZoom) + 1

\* the test of labels.cpp:20 and :57
LODExceeded(t) == (m_currentZoom - TileZ(t)) > LODDiscardFunc(s_maxZoom, m_currentZoom)

\* ------------------------------------------------------------- Init
Init ==
    /\ m_labelUnits = <<>>
    /\ m_pendingLabelUnits = <<>>
    /\ m_mutex = {}
    /\ m_currentZoom \in Zooms
    /\ label = [l \in Labels |-> Unborn]
    /\ tileLabels = [t \in Tiles |-> {}]
    /\ tileGone = [t \in Tiles |-> FALSE]
    /\ wpc = [w \in Workers |-> "idle"]
    /\ wlabel = [w \in Workers |-> 0]
    /\ calls = [w \in Workers |-> 0]
    /\ wret = [w \in Workers |-> "none"]
    /\ rpc = "idle"
    /\ idx = 0
    /\ aabbs = <<>>
    /\ pairs = {}
    /\ occlusions = {}
    /\ todo = {}
    /\ dangling = FALSE
    /\ scanDead = {}
    /\ pruned = {}
    /\ drained = FALSE
    /\ lpc = "in" /\ f_maxZoom = 0 /\ f_zoom = 0 /\ f_tileZ = 0
    /\ f_lod = 0 /\ f_discard = FALSE
    /\ ipc = "in" /\ resolution = <<1, 1>> /\ aabbsIn = <<>> /\ candidates = {}
    /\ spc = "in" /\ builder = "none" /\ geometry = <<>> /\ rings = <<>>
    /\ params = [visible |-> FALSE, textSource |-> ""]
    /\ props = [has |-> FALSE, name |-> ""]
    /\ text = "" /\ skipOffset = 0 /\ li = 0 /\ buffer = <<>>

\* ------------------------------------------------------------- workers
LabelId(w, k) == (w - 1) * PerWorker + k

CanCall(w) == wpc[w] = "idle" /\ calls[w] < PerWorker /\ ~tileGone[w]

\* labels.cpp:20-22: LOD discard, return nullptr
AddTextLabelLOD(w) ==
    /\ CanCall(w)
    /\ LODExceeded(w)
    /\ calls' = [calls EXCEPT ![w] = @ + 1]
    /\ wret' = [wret EXCEPT ![w] = "lod"]
    /\ UNCHANGED <<m_labelUnits, m_pendingLabelUnits, m_mutex, m_currentZoom, label,
                   tileLabels, tileGone, wpc, wlabel, pruned, drained>>
    /\ UNCHANGED passVars
    /\ UNCHANGED auxVars

\* labels.cpp:24-26, 41: no current buffer, return nullptr
AddTextLabelNoBuffer(w) ==
    /\ CanCall(w)
    /\ ~LODExceeded(w)
    /\ calls' = [calls EXCEPT ![w] = @ + 1]
    /\ wret' = [wret EXCEPT ![w] = "nobuffer"]
    /\ UNCHANGED <<m_labelUnits, m_pendingLabelUnits, m_mutex, m_currentZoom, label,
                   tileLabels, tileGone, wpc, wlabel, pruned, drained>>
    /\ UNCHANGED passVars
    /\ UNCHANGED auxVars

\* mutant: the label is enqueued before rasterize() is tested
AddTextLabelRasterFailEnqueued(w) ==
    /\ CanCall(w)
    /\ ~LODExceeded(w)
    /\ calls' = [calls EXCEPT ![w] = @ + 1]
    /\ wret' = [wret EXCEPT ![w] = "raster"]
    /\ m_pendingLabelUnits' = Append(m_pendingLabelUnits, LabelId(w, calls[w] + 1))
    /\ UNCHANGED <<m_labelUnits, m_mutex, m_currentZoom, label,
                   tileLabels, tileGone, wpc, wlabel, pruned, drained>>
    /\ UNCHANGED passVars
    /\ UNCHANGED auxVars

\* labels.cpp:27-34: the TextLabel is constructed, rasterize() fails, the only
\* shared_ptr is reset (the label is freed again) and nullptr is returned
AddTextLabelRasterFail(w) ==
    /\ CanCall(w)
    /\ ~LODExceeded(w)
    /\ calls' = [calls EXCEPT ![w] = @ + 1]
    /\ wret' = [wret EXCEPT ![w] = "raster"]
    /\ UNCHANGED <<m_labelUnits, m_pendingLabelUnits, m_mutex, m_currentZoom, label,
                   tileLabels, tileGone, wpc, wlabel, pruned, drained>>
    /\ UNCHANGED passVars
    /\ UNCHANGED auxVars

\* the label of this call is constructed and addLabel is entered
BeginAdd(w, occ) ==
    /\ CanCall(w)
    /\ ~LODExceeded(w)
    /\ calls' = [calls EXCEPT ![w] = @ + 1]
    /\ wlabel' = [wlabel EXCEPT ![w] = LabelId(w, calls[w] + 1)]
    /\ label' = [label EXCEPT ![LabelId(w, calls[w] + 1)] = NewLabel(occ)]
    /\ wpc' = [wpc EXCEPT ![w] = "prepare"]
    /\ wret' = [wret EXCEPT ![w] = "none"]
    /\ UNCHANGED <<m_labelUnits, m_pendingLabelUnits, m_mutex, m_currentZoom,
                   tileLabels, tileGone, pruned, drained>>
    /\ UNCHANGED passVars
    /\ UNCHANGED auxVars

\* labels.cpp:24-36: buffer present, rasterize() succeeds, addLabel is called
AddTextLabelOk(w, occ) == BeginAdd(w, occ)

\* labels.cpp:57-59: LOD discard, return nullptr
AddSpriteLabelLOD(w) ==
    /\ CanCall(w)
    /\ LODExceeded(w)
    /\ calls' = [calls EXCEPT ![w] = @ + 1]
    /\ wret' = [wret EXCEPT ![w] = "lod"]
    /\ UNCHANGED <<m_labelUnits, m_pendingLabelUnits, m_mutex, m_currentZoom, label,
                   tileLabels, tileGone, wpc, wlabel, pruned, drained>>
    /\ UNCHANGED passVars
    /\ UNCHANGED auxVars

\* labels.cpp:61-62: the SpriteLabel is constructed, addLabel is called
AddSpriteLabelOk(w, occ) == BeginAdd(w, occ)

\* labels.cpp:45-47: label->update(...), TileID copy, _tile.addLabel(_styleName, _label)
Prepare(w) ==
    /\ wpc[w] = "prepare"
    /\ tileLabels' = [tileLabels EXCEPT ![w] = @ \cup {wlabel[w]}]
    /\ wpc' = [wpc EXCEPT ![w] = "lock"]
    /\ UNCHANGED <<m_labelUnits, m_pendingLabelUnits, m_mutex, m_currentZoom, label,
                   tileGone, wlabel, calls, wret, pruned, drained>>
    /\ UNCHANGED passVars
    /\ UNCHANGED auxVars

\* labels.cpp:51: std::lock_guard<std::mutex> lock(m_mutex)
WorkerLock(w) ==
    /\ wpc[w] = "lock"
    /\ m_mutex = {}
    /\ m_mutex' = {w}
    /\ wpc' = [wpc EXCEPT ![w] = "emplace"]
    /\ UNCHANGED <<m_labelUnits, m_pendingLabelUnits, m_currentZoom, label,
                   tileLabels, tileGone, wlabel, calls, wret, pruned, drained>>
    /\ UNCHANGED passVars
    /\ UNCHANGED auxVars

\* m_pendingLabelUnits.emplace_back(LabelUnit(_label, tileID, _styleName))
EmplaceBack(pending, l) == Append(pending, l)

\* mutant: the lock is not released at the end of the scope
ReleaseNothing(mutex, t) == mutex

\* the mutex after a lock_guard of thread t goes out of scope
Release(mutex, t) == mutex \ {t}

\* labels.cpp:52-53: append, end of the lock_guard scope; return at :38 or :64
WorkerEmplace(w) ==
    /\ wpc[w] = "emplace"
    /\ m_pendingLabelUnits' = EmplaceBack(m_pendingLabelUnits, wlabel[w])
    /\ m_mutex' = Release(m_mutex, w)
    /\ wpc' = [wpc EXCEPT ![w] = "idle"]
    /\ wlabel' = [wlabel EXCEPT ![w] = 0]
    /\ wret' = [wret EXCEPT ![w] = "label"]
    /\ UNCHANGED <<m_labelUnits, m_currentZoom, label,
                   tileLabels, tileGone, calls, pruned, drained>>
    /\ UNCHANGED passVars
    /\ UNCHANGED auxVars

\* ------------------------------------------------------------- tiles
\* The tile is unloaded: the last strong reference to each of its labels goes.
\* A worker keeps its tile alive while it is inside add*Label.
EvictTile(t) ==
    /\ ~tileGone[t]
    /\ wpc[t] = "idle"
    /\ tileGone' = [tileGone EXCEPT ![t] = TRUE]
    /\ label' = [l \in Labels |-> IF l \in tileLabels[t] THEN FreedOf(label[l]) ELSE label[l]]
    /\ tileLabels' = [tileLabels EXCEPT ![t] = {}]
    /\ UNCHANGED <<m_labelUnits, m_pendingLabelUnits, m_mutex, m_currentZoom,
                   wpc, wlabel, calls, wret, pruned, drained>>
    /\ UNCHANGED passVars
    /\ UNCHANGED auxVars

\* ------------------------------------------------------------- render thread
SizeMod == Pow(2, SizeBits)

\* labels.cpp:68: m_currentZoom = m_view->getZoom()
BeginPass(z) ==
    /\ rpc = "idle"
    /\ m_currentZoom' = z
    /\ rpc' = "reserve"
    /\ UNCHANGED <<m_labelUnits, m_pendingLabelUnits, m_mutex, label, tileLabels,
                   tileGone, pruned, drained>>
    /\ UNCHANGED <<idx, aabbs, pairs, occlusions, todo, dangling, scanDead>>
    /\ UNCHANGED workerVars
    /\ UNCHANGED auxVars

\* labels.cpp:71: m_labelUnits.reserve(m_labelUnits.size() + m_pendingLabelUnits.size());
\* the pending queue's size is read before the lock is taken, the sum only sets
\* the capacity of m_labelUnits, which is not part of the state
Reserve ==
    /\ rpc = "reserve"
    /\ rpc' = "lock"
    /\ UNCHANGED <<m_labelUnits, m_pendingLabelUnits, m_mutex, m_currentZoom, label,
                   tileLabels, tileGone, pruned, drained>>
    /\ UNCHANGED <<idx, aabbs, pairs, occlusions, todo, dangling, scanDead>>
    /\ UNCHANGED workerVars
    /\ UNCHANGED auxVars

\* labels.cpp:73
RenderLock ==
    /\ rpc = "lock"
    /\ m_mutex = {}
    /\ m_mutex' = {RenderThread}
    /\ rpc' = "merge"
    /\ UNCHANGED <<m_labelUnits, m_pendingLabelUnits, m_currentZoom, label,
                   tileLabels, tileGone, pruned, drained>>
    /\ UNCHANGED <<idx, aabbs, pairs, occlusions, todo, dangling, scanDead>>
    /\ UNCHANGED workerVars
    /\ UNCHANGED auxVars

\* mutant: the insert stops one element short of end()
MergeInsertShort(units, pending) ==
    units \o (IF pending = <<>> THEN <<>> ELSE SubSeq(pending, 1, Len(pending) - 1))

\* labels.cpp:74-75: insert at the end, through move iterators
MergeInsert(units, pending) == units \o pending
\* the queue after its elements were moved from
MovedFrom(pending) == [k \in 1..Len(pending) |-> 0]
\* labels.cpp:76: std::vector<LabelUnit>().swap(m_pendingLabelUnits)
SwapEmpty(pending) == <<>>

AllProducersDone ==
    \A w \in Workers : wpc[w] = "idle" /\ (calls[w] = PerWorker \/ tileGone[w])

\* labels.cpp:74-77: insert and swap inside the lock, end of the lock_guard
\* scope; 79-82: locals, i = 0
Merge ==
    /\ rpc = "merge"
    /\ m_labelUnits' = MergeInsert(m_labelUnits, m_pendingLabelUnits)
    /\ m_pendingLabelUnits' = SwapEmpty(MovedFrom(m_pendingLabelUnits))
    /\ m_mutex' = Release(m_mutex, RenderThread)
    /\ drained' = (drained \/ AllProducersDone)
    /\ rpc' = "scan"
    /\ idx' = 0
    /\ aabbs' = <<>>
    /\ occlusions' = {}
    /\ scanDead' = {u \in Range(m_labelUnits') : ~Alive(u)}
    /\ UNCHANGED <<m_currentZoom, label, tileLabels, tileGone, pruned>>
    /\ UNCHANGED <<pairs, todo, dangling>>
    /\ UNCHANGED workerVars
    /\ UNCHANGED auxVars

\* mutant: the last unit is popped without being moved to index i
SwapPopNoMove(units, i) == SubSeq(units, 1, Len(units) - 1)

\* labels.cpp:87-88: m_labelUnits[i] = std::move(m_labelUnits[size - 1]); pop_back()
SwapPop(units, i) ==
    SubSeq([units EXCEPT ![i + 1] = units[Len(units)]], 1, Len(units) - 1)

\* mutant: the index is not stepped back after the swap
StepBackMissing(i) == (i + 1) % SizeMod

\* labels.cpp:87, 89, 82: i-- on a size_t, continue, i++
StepBack(i) == (((i - 1) % SizeMod) + 1) % SizeMod

\* mutant: the canOcclude() test is missing
CollectAll(boxes, lab, l) == Append(boxes, l)

\* labels.cpp:92-96: the candidate array after a live label was examined
Collect(boxes, lab, l) == IF lab[l].canOcclude THEN Append(boxes, l) ELSE boxes

\* labels.cpp:82-97, one iteration
ScanStep ==
    /\ rpc = "scan"
    /\ idx < Len(m_labelUnits)
    /\ LET l == getWeakLabel(label, m_labelUnits[idx + 1]) IN
         IF l = 0
         THEN /\ m_labelUnits' = SwapPop(m_labelUnits, idx)
              /\ idx' = StepBack(idx)
              /\ pruned' = pruned \cup {m_labelUnits[idx + 1]}
              /\ aabbs' = aabbs
         ELSE /\ aabbs' = Collect(aabbs, label, l)
              /\ idx' = (idx + 1) % SizeMod
              /\ UNCHANGED <<m_labelUnits, pruned>>
    /\ UNCHANGED <<m_pendingLabelUnits, m_mutex, m_currentZoom, label,
                   tileLabels, tileGone, drained>>
    /\ UNCHANGED <<rpc, pairs, occlusions, todo, dangling, scanDead>>
    /\ UNCHANGED workerVars
    /\ UNCHANGED auxVars

\* labels.cpp:82: the loop condition fails
ScanDone ==
    /\ rpc = "scan"
    /\ ~(idx < Len(m_labelUnits))
    /\ rpc' = "broad"
    /\ scanDead' = {}
    /\ UNCHANGED <<m_labelUnits, m_pendingLabelUnits, m_mutex, m_currentZoom, label,
                   tileLabels, tileGone, pruned, drained>>
    /\ UNCHANGED <<idx, aabbs, pairs, occlusions, todo, dangling>>
    /\ UNCHANGED workerVars
    /\ UNCHANGED auxVars

\* index pairs over a candidate array of n boxes
IdxPairs(n) == {p \in (1..n) \X (1..n) : p[1] # p[2]}

\* the results intersect can return: at most k pairs of boxes, each pair of
\* boxes once, in either order of its two indices
RECURSIVE PairSets(_, _)
PairSets(n, k) ==
    IF k = 0 THEN {{}}
    ELSE LET prev == PairSets(n, k - 1)
         IN  prev \cup UNION {{s \cup {p} : p \in {q \in IdxPairs(n) : <<q[2], q[1]>> \notin s}} :
                                 s \in prev}

\* labels.cpp:100: isect2d's intersect(aabbs, {4, 4}, {width, height}) returns a
\* set of index pairs; the boxes are inputs, so is the set
BroadPhase(P) ==
    /\ rpc = "broad"
    /\ P \in PairSets(Len(aabbs), MaxPairs)
    /\ pairs' = P
    /\ rpc' = "narrow"
    /\ UNCHANGED <<m_labelUnits, m_pendingLabelUnits, m_mutex, m_currentZoom, label,
                   tileLabels, tileGone, pruned, drained>>
    /\ UNCHANGED <<idx, aabbs, occlusions, todo, dangling, scanDead>>
    /\ UNCHANGED workerVars
    /\ UNCHANGED auxVars

\* mutant: the pair is inserted in both orders
OcclusionInsertBoth(occ, l1, l2) == occ \cup {<<l1, l2>>, <<l2, l1>>}

\* labels.cpp:110: occlusions.insert({l1, l2})
OcclusionInsert(occ, l1, l2) == occ \cup {<<l1, l2>>}

\* labels.cpp:102-111 for the pairs ps whose OBBs intersect
RECURSIVE InsertAll(_, _, _)
InsertAll(occ, bs, ps) ==
    IF ps = {} THEN occ
    ELSE LET p == CHOOSE q \in ps : TRUE
         IN  InsertAll(OcclusionInsert(occ, bs[p[1]], bs[p[2]]), bs, ps \ {p})

\* labels.cpp:102-111: l1, l2 are read from the user data and dereferenced; the
\* pairs whose OBBs intersect (the set H of unordered index pairs) are inserted
NarrowPhase(H) ==
    /\ rpc = "narrow"
    /\ H \subseteq {{p[1], p[2]} : p \in pairs}
    /\ occlusions' = InsertAll(occlusions, aabbs, {q \in pairs : {q[1], q[2]} \in H})
    /\ todo' = occlusions'
    /\ dangling' = (dangling \/ \E p \in pairs : ~Alive(aabbs[p[1]]) \/ ~Alive(aabbs[p[2]]))
    /\ pairs' = {}
    /\ rpc' = "resolve"
    /\ UNCHANGED <<m_labelUnits, m_pendingLabelUnits, m_mutex, m_currentZoom, label,
                   tileLabels, tileGone, pruned, drained>>
    /\ UNCHANGED <<idx, aabbs, scanDead>>
    /\ UNCHANGED workerVars
    /\ UNCHANGED auxVars

\* std::set<std::pair<Label*, Label*>> iterates in lexicographic pointer order
PairLess(p, q) == p[1] < q[1] \/ (p[1] = q[1] /\ p[2] < q[2])
FirstPair(S) == CHOOSE p \in S : \A q \in S \ {p} : PairLess(p, q)

\* mutant: line 122 without its occludedLastFrame() test
ResolvePairUnguarded(lab, f, s, rf, rs) ==
    LET l1 == IF ~rf.oLF /\ rs.st = "WAIT_OCC" THEN setOcclusion(lab, s) ELSE lab
        l2 == IF ~rs.oLF /\ rf.st = "WAIT_OCC" THEN setOcclusion(l1, f) ELSE l1
    IN  setOcclusion(l2, f)

\* labels.cpp:115-122 for one pair; rf, rs are what occludedLastFrame() and
\* getState() return for pair.first and pair.second
ResolvePair(lab, f, s, rf, rs) ==
    LET l1 == IF ~rf.oLF /\ rs.st = "WAIT_OCC" THEN setOcclusion(lab, s) ELSE lab
        l2 == IF ~rs.oLF /\ rf.st = "WAIT_OCC" THEN setOcclusion(l1, f) ELSE l1
    IN  IF ~rs.oLF THEN setOcclusion(l2, f) ELSE l2

\* labels.cpp:114-123, one iteration
ResolveStep ==
    /\ rpc = "resolve"
    /\ todo # {}
    /\ LET p == FirstPair(todo) IN
         /\ \E rf \in Reads(label, p[1]), rs \in Reads(label, p[2]) :
                label' = ResolvePair(label, p[1], p[2], rf, rs)
         /\ dangling' = (dangling \/ ~Alive(p[1]) \/ ~Alive(p[2]))
         /\ todo' = todo \ {p}
    /\ UNCHANGED <<m_labelUnits, m_pendingLabelUnits, m_mutex, m_currentZoom,
                   tileLabels, tileGone, pruned, drained>>
    /\ UNCHANGED <<rpc, idx, aabbs, pairs, occlusions, scanDead>>
    /\ UNCHANGED workerVars
    /\ UNCHANGED auxVars

\* labels.cpp:114 loop end, 125: i = 0
ResolveDone ==
    /\ rpc = "resolve"
    /\ todo = {}
    /\ rpc' = "finalize"
    /\ idx' = 0
    /\ UNCHANGED <<m_labelUnits, m_pendingLabelUnits, m_mutex, m_currentZoom, label,
                   tileLabels, tileGone, pruned, drained>>
    /\ UNCHANGED <<aabbs, pairs, occlusions, todo, dangling, scanDead>>
    /\ UNCHANGED workerVars
    /\ UNCHANGED auxVars

\* mutant: only occludable labels are finalized
FinalizeOccludable(lab, l) ==
    IF l # 0 /\ lab[l].canOcclude THEN occlusionSolved(lab, l) ELSE lab

\* labels.cpp:129: if (label != nullptr) { label->occlusionSolved(); }
Finalize(lab, l) == IF l # 0 THEN occlusionSolved(lab, l) ELSE lab

\* labels.cpp:125-130, one iteration
FinalizeStep ==
    /\ rpc = "finalize"
    /\ idx < Len(m_labelUnits)
    /\ LET l == getWeakLabel(label, m_labelUnits[idx + 1]) IN
         label' = Finalize(label, l)
    /\ idx' = (idx + 1) % SizeMod
    /\ UNCHANGED <<m_labelUnits, m_pendingLabelUnits, m_mutex, m_currentZoom,
                   tileLabels, tileGone, pruned, drained>>
    /\ UNCHANGED <<rpc, aabbs, pairs, occlusions, todo, dangling, scanDead>>
    /\ UNCHANGED workerVars
    /\ UNCHANGED auxVars

\* labels.cpp:131: return, the locals are destroyed
EndPass ==
    /\ rpc = "finalize"
    /\ ~(idx < Len(m_labelUnits))
    /\ rpc' = "idle"
    /\ idx' = 0
    /\ aabbs' = <<>>
    /\ occlusions' = {}
    /\ dangling' = FALSE
    /\ label' = [l \in Labels |-> [label[l] EXCEPT !.solved = 0]]
    /\ UNCHANGED <<m_labelUnits, m_pendingLabelUnits, m_mutex, m_currentZoom,
                   tileLabels, tileGone, pruned, drained>>
    /\ UNCHANGED <<pairs, todo, scanDead>>
    /\ UNCHANGED workerVars
    /\ UNCHANGED auxVars

\* ------------------------------------------------------------- specification
Next ==
    \/ \E w \in Workers : AddTextLabelLOD(w)
    \/ \E w \in Workers : AddTextLabelNoBuffer(w)
    \/ \E w \in Workers : AddTextLabelRasterFail(w)
    \/ \E w \in Workers, occ \in BOOLEAN : AddTextLabelOk(w, occ)
    \/ \E w \in Workers : AddSpriteLabelLOD(w)
    \/ \E w \in Workers, occ \in BOOLEAN : AddSpriteLabelOk(w, occ)
    \/ \E w \in Workers : Prepare(w)
    \/ \E w \in Workers : WorkerLock(w)
    \/ \E w \in Workers : WorkerEmplace(w)
    \/ \E t \in Tiles : EvictTile(t)
    \/ \E z \in Zooms : BeginPass(z)
    \/ Reserve
    \/ RenderLock
    \/ Merge
    \/ ScanStep
    \/ ScanDone
    \/ \E P \in PairSets(Len(aabbs), MaxPairs) : BroadPhase(P)
    \/ \E H \in SUBSET {{p[1], p[2]} : p \in pairs} : NarrowPhase(H)
    \/ ResolveStep
    \/ ResolveDone
    \/ FinalizeStep
    \/ EndPass

Spec == Init /\ [][Next]_vars

\* ------------------------------------------------------------- LOD function
\* LODDiscardFunc and the test of labels.cpp:20 applied to given arguments:
\* integer zoom levels, the zoom within 0..maxZoom
MaxLODZoom == 6      \* largest _maxZoom given

\* the arguments are chosen
LODCall(maxZoom, zoom, tileZ) ==
    /\ lpc = "in"
    /\ zoom \in 0..maxZoom /\ tileZ \in 0..maxZoom
    /\ f_maxZoom' = maxZoom
    /\ f_zoom' = zoom
    /\ f_tileZ' = tileZ
    /\ lpc' = "call"
    /\ UNCHANGED <<f_lod, f_discard>>
    /\ UNCHANGED <<managerVars, broadVars, styleVars>>

\* labels.cpp:15 and the comparison of labels.cpp:20
LODReturn ==
    /\ lpc = "call"
    /\ f_lod' = LODDiscardFunc(f_maxZoom, f_zoom)
    /\ f_discard' = ((f_zoom - f_tileZ) > f_lod')
    /\ lpc' = "done"
    /\ UNCHANGED <<f_maxZoom, f_zoom, f_tileZ>>
    /\ UNCHANGED <<managerVars, broadVars, styleVars>>

NextLOD ==
    \/ \E maxZoom \in 0..MaxLODZoom, zoom \in 0..MaxLODZoom, tileZ \in 0..MaxLODZoom :
           LODCall(maxZoom, zoom, tileZ)
    \/ LODReturn

\* the label manager is left as constructed
InitLOD == Init /\ m_currentZoom = 0

SpecLOD == InitLOD /\ [][NextLOD]_vars

\* ------------------------------------------------------------- broad phase
\* intersect(aabbs, {4, 4}, {width, height}) of labels.cpp:100 on its own: the
\* grid cells are laid out as labels.cpp:148-163 draws them, an AABB goes into
\* every cell it intersects, and the pairs that share a cell are reported.
MinRes == 3          \* smallest viewport width and height given
MaxRes == 4          \* largest viewport width and height given
MinCoord == 0 - 2    \* smallest box coordinate given
MaxExtent == 2       \* largest width and height of a box given
MaxBoxes == 2        \* boxes given to one call
Split == 4           \* the {4, 4} of labels.cpp:100 and :148

Extents == {e \in (MinCoord..(MaxRes + 1)) \X (MinCoord..(MaxRes + 1)) :
               e[1] < e[2] /\ e[2] - e[1] <= MaxExtent}
AABBs == {[minx |-> ex[1], miny |-> ey[1], maxx |-> ex[2], maxy |-> ey[2]] :
             ex \in Extents, ey \in Extents}
Resolutions == (MinRes..MaxRes) \X (MinRes..MaxRes)

\* short(ceilf(res / split)) for positive integers
CeilDiv(a, b) == (a + b - 1) \div b

\* mutant: x is never reset, the cells form a single row
RECURSIVE GridCellsNoWrap(_, _, _, _, _, _)
GridCellsNoWrap(n, x, y, resx, xpad, ypad) ==
    IF n = 0 THEN <<>>
    ELSE <<[minx |-> x, miny |-> y, maxx |-> x + xpad, maxy |-> y + ypad]>>
         \o GridCellsNoWrap(n - 1, x + xpad, y, resx, xpad, ypad)

\* labels.cpp:153-163: the n cells that follow the cell at (x, y)
RECURSIVE GridCells(_, _, _, _, _, _)
GridCells(n, x, y, resx, xpad, ypad) ==
    IF n = 0 THEN <<>>
    ELSE <<[minx |-> x, miny |-> y, maxx |-> x + xpad, maxy |-> y + ypad]>>
         \o (IF x + xpad >= resx
             THEN GridCells(n - 1, 0, y + ypad, resx, xpad, ypad)
             ELSE GridCells(n - 1, x + xpad, y, resx, xpad, ypad))

\* labels.cpp:148-163
Cells(res) ==
    GridCells(Split * Split, 0, 0, res[1], CeilDiv(res[1], Split), CeilDiv(res[2], Split))

\* isect2d::AABB::intersect: the closed boxes have a point in common
AABBIntersect(a, b) ==
    /\ a.minx <= b.maxx /\ b.minx <= a.maxx
    /\ a.miny <= b.maxy /\ b.miny <= a.maxy

\* the boxes (indices) that fall into a cell
Bucket(bs, cell) == {k \in 1..Len(bs) : AABBIntersect(cell, bs[k])}

\* the candidate pairs: the pairs of boxes that share at least one cell
Intersect(bs, res) ==
    LET cells == Cells(res) IN
    {{i, j} : <<i, j>> \in {q \in (1..Len(bs)) \X (1..Len(bs)) :
                  /\ q[1] < q[2]
                  /\ \E c \in 1..Len(cells) :
                         q[1] \in Bucket(bs, cells[c]) /\ q[2] \in Bucket(bs, cells[c])}}

\* one more AABB is pushed to the array that will be passed in
GiveBox(b) ==
    /\ ipc = "in"
    /\ Len(aabbsIn) < MaxBoxes
    /\ aabbsIn' = Append(aabbsIn, b)
    /\ UNCHANGED <<ipc, resolution, candidates>>
    /\ UNCHANGED <<managerVars, lodVars, styleVars>>

\* labels.cpp:100
CallIntersect(res) ==
    /\ ipc = "in"
    /\ resolution' = res
    /\ candidates' = Intersect(aabbsIn, res)
    /\ ipc' = "done"
    /\ UNCHANGED aabbsIn
    /\ UNCHANGED <<managerVars, lodVars, styleVars>>

NextBroad ==
    \/ \E b \in AABBs : GiveBox(b)
    \/ \E res \in Resolutions : CallIntersect(res)

\* the label manager is left as constructed
InitBroad == Init /\ m_currentZoom = 0

SpecBroad == InitBroad /\ [][NextBroad]_vars

\* ------------------------------------------------------------- text style
\* TextStyle::buildPoint, buildLine, buildPolygon (style/textStyle.cpp:101-187).
\* Coordinates are in units of 0.05, so that minLength = 0.15 is 3 units.
MaxLineLen == 9      \* points given to one builder call
MaxPolyPoints == 3   \* points of a polygon given to buildPolygon
MaxEmit == 3         \* labels the buffer takes before it is full
minLength == 3       \* float minLength = 0.15 (textStyle.cpp:140)

Points == {<<0, 0>>, <<4, 3>>}
TextSources == {"", "source"}
Parameters == [visible : BOOLEAN, textSource : TextSources]
Properties == {[has |-> FALSE, name |-> ""], [has |-> TRUE, name |-> ""],
               [has |-> TRUE, name |-> "Main St"]}

\* Properties::getString(key_name): the value, the empty string when absent
getString(pr) == IF pr.has THEN pr.name ELSE ""

\* mutant: the explicit text source is ignored
applyTextSourceNameOnly(par, pr) == getString(pr)

\* textStyle.cpp:101-107
applyTextSource(par, pr) ==
    IF par.textSource # "" THEN par.textSource ELSE getString(pr)

\* glm::length(p2 - p1) < minLength
Short(p1, p2) ==
    (p2[1] - p1[1]) * (p2[1] - p1[1]) + (p2[2] - p1[2]) * (p2[2] - p1[2])
        < minLength * minLength

\* what _line[k] can yield: the point, or anything when k is outside the line
LineAt(line, k) == IF k < Len(line) THEN {line[k + 1]} ELSE Points

\* mutant: the stride is rounded up
SkipOffsetUp(lineLength) == (lineLength + 1) \div 2

\* textStyle.cpp:139: int skipOffset = floor(lineLength / 2)
SkipOffset(lineLength) == lineLength \div 2

\* textStyle.cpp:143: _line.size() - 1, computed on size_t
LoopBound(line) == (Len(line) - 1) % SizeMod

\* buffer.addLabel(text, {p1, p2}, type, ...); at is the index the label is anchored at
AddLabel(buf, txt, p1, p2, type, at) ==
    Append(buf, [text |-> txt, p1 |-> p1, p2 |-> p2, type |-> type, at |-> at])

\* the feature's geometry gets one more point
GivePoint(p) ==
    /\ spc = "in"
    /\ Len(geometry) < MaxLineLen
    /\ geometry' = Append(geometry, p)
    /\ UNCHANGED <<spc, builder, rings, params, props, text, skipOffset, li, buffer>>
    /\ UNCHANGED <<managerVars, lodVars, broadVars>>

\* textStyle.cpp:109-123
BuildPoint(par, pr) ==
    /\ spc = "in"
    /\ Len(geometry) = 1
    /\ builder' = "point"
    /\ params' = par
    /\ props' = pr
    /\ text' = IF par.visible THEN applyTextSource(par, pr) ELSE ""
    /\ buffer' = IF par.visible /\ text' # ""
                 THEN AddLabel(buffer, text', geometry[1], geometry[1], "point", 0)
                 ELSE buffer
    /\ spc' = "done"
    /\ UNCHANGED <<geometry, rings, skipOffset, li>>
    /\ UNCHANGED <<managerVars, lodVars, broadVars>>

\* textStyle.cpp:125-143: up to the first test of the loop condition
BuildLineEnter(par, pr) ==
    /\ spc = "in"
    /\ builder' = "line"
    /\ params' = par
    /\ props' = pr
    /\ text' = IF par.visible THEN applyTextSource(par, pr) ELSE ""
    /\ IF par.visible /\ text' # ""
       THEN /\ skipOffset' = SkipOffset(Len(geometry))
            /\ li' = 0
            /\ spc' = "line"
       ELSE /\ spc' = "done"
            /\ UNCHANGED <<skipOffset, li>>
    /\ UNCHANGED <<geometry, rings, buffer>>
    /\ UNCHANGED <<managerVars, lodVars, broadVars>>

\* textStyle.cpp:143-155, one iteration
BuildLineStep ==
    /\ spc = "line"
    /\ li < LoopBound(geometry)
    /\ \E p1 \in LineAt(geometry, li), p2 \in LineAt(geometry, li + 1) :
           IF Short(p1, p2)
           THEN buffer' = buffer
           ELSE /\ Len(buffer) < MaxEmit
                /\ buffer' = AddLabel(buffer, text, p1, p2, "line", li)
    /\ li' = (li + skipOffset) % SizeMod
    /\ UNCHANGED <<spc, builder, geometry, rings, params, props, text, skipOffset>>
    /\ UNCHANGED <<managerVars, lodVars, broadVars>>

\* textStyle.cpp:143, 157: the loop condition fails
BuildLineExit ==
    /\ spc = "line"
    /\ ~(li < LoopBound(geometry))
    /\ spc' = "done"
    /\ UNCHANGED <<builder, geometry, rings, params, props, text, skipOffset, li, buffer>>
    /\ UNCHANGED <<managerVars, lodVars, broadVars>>

\* the polygons made of the points given: no ring, one ring, two rings
Polygons(g) ==
    {<<SubSeq(g, 1, k), SubSeq(g, k + 1, Len(g))>> : k \in 0..Len(g)}
        \cup {<<g>>} \cup (IF g = <<>> THEN {<<>>} ELSE {})

RECURSIVE SumSeq(_, _)
SumSeq(ps, c) == IF ps = <<>> THEN 0 ELSE ps[1][c] + SumSeq(Tail(ps), c)

RECURSIVE Flatten(_)
Flatten(rs) == IF rs = <<>> THEN <<>> ELSE rs[1] \o Flatten(Tail(rs))

\* textStyle.cpp:172-184: the centroid (sumx / n, sumy / n), kept as <<sumx, sumy, n>>
Centroid(rs) ==
    <<SumSeq(Flatten(rs), 1), SumSeq(Flatten(rs), 2), Len(Flatten(rs))>>

\* textStyle.cpp:159-187
BuildPolygon(par, pr, poly) ==
    /\ spc = "in"
    /\ Len(geometry) <= MaxPolyPoints
    /\ poly \in Polygons(geometry)
    /\ builder' = "polygon"
    /\ rings' = poly
    /\ params' = par
    /\ props' = pr
    /\ text' = IF par.visible THEN applyTextSource(par, pr) ELSE ""
    /\ buffer' = IF par.visible /\ text' # "" /\ Len(Flatten(poly)) # 0
                 THEN AddLabel(buffer, text', Centroid(poly), Centroid(poly), "point", 0)
                 ELSE buffer
    /\ spc' = "done"
    /\ UNCHANGED <<geometry, skipOffset, li>>
    /\ UNCHANGED <<managerVars, lodVars, broadVars>>

NextStyle ==
    \/ \E p \in Points : GivePoint(p)
    \/ \E par \in Parameters, pr \in Properties : BuildPoint(par, pr)
    \/ \E par \in Parameters, pr \in Properties : BuildLineEnter(par, pr)
    \/ BuildLineStep
    \/ BuildLineExit
    \/ \E par \in Parameters, pr \in Properties, poly \in Polygons(geometry) :
           BuildPolygon(par, pr, poly)

\* the label manager is left as constructed
InitStyle == Init /\ m_currentZoom = 0

SpecStyle == InitStyle /\ [][NextStyle]_vars

\* ------------------------------------------------------------- properties
Occ(l) == label[l].occluded
OLF(l) == label[l].occludedLastFrame
Born(l) == label[l].status # "unborn"
InPair(a, b) == <<a, b>> \in occlusions \/ <<b, a>> \in occlusions
\* every pair of the occlusion set that holds a is the pair of a and b
OnlyWith(a, b) == \A p \in occlusions : (p[1] = a \/ p[2] = a) => {p[1], p[2]} = {a, b}
ScanComplete == rpc = "scan" /\ ~(idx < Len(m_labelUnits))
ResolveComplete == rpc = "resolve" /\ todo = {}
FinalizeComplete == rpc = "finalize" /\ ~(idx < Len(m_labelUnits))
Math == {"scan", "broad", "narrow", "resolve", "finalize"}
LODOver(t) == (m_currentZoom - TileZ(t)) > LODDiscardFunc(s_maxZoom, m_currentZoom)

\* C1: once every producer has finished and a merge has run after that, the
\* pending queue is empty and every submitted unit is in m_labelUnits exactly
\* once, unless the prune scan has removed it (then it is there zero times):
\* no unit is lost, none is duplicated.
C1_NoLossNoDup ==
    (AllProducersDone /\ drained) =>
        /\ m_pendingLabelUnits = <<>>
        /\ \A l \in Labels :
               Born(l) => Count(m_labelUnits, l) + (IF l \in pruned THEN 1 ELSE 0) = 1
C1_Witness ==
    /\ AllProducersDone /\ drained
    /\ \A l \in Labels : Born(l) /\ Count(m_labelUnits, l) = 1

\* C2 (as claimed): no thread reads or writes the pending queue while another
\* thread is modifying it; the accesses are the append of addLabel (line 52),
\* the size() read of line 71 and the merge of lines 74-76.
C2_NoConcurrentAccess ==
    ~(\E w \in Workers : wpc[w] = "emplace" /\ rpc \in {"reserve", "merge"})

\* C3 (as claimed): when the scan has completed, every entry of m_labelUnits
\* resolves to a live label.
C3_AllLiveAfterScan ==
    ScanComplete => \A k \in 1..Len(m_labelUnits) : Alive(m_labelUnits[k])
\* C3 (amended): when the scan has completed, no entry whose label was already
\* dead when the scan began is left in m_labelUnits, wherever it stood.
C3_DeadAtStartPruned ==
    ScanComplete => \A k \in 1..Len(m_labelUnits) : m_labelUnits[k] \notin scanDead
C3_Witness ==
    ScanComplete /\ Cardinality(scanDead) >= 2 /\ Len(m_labelUnits) >= 1

\* C4 (as claimed): after the resolve loop, for any pair of the occlusion set
\* made of A (not occluded last frame) and B (occluded last frame), A is not
\* marked occluded and B is.
C4_Hysteresis ==
    ResolveComplete =>
        \A a, b \in Labels :
            (Alive(a) /\ Alive(b) /\ InPair(a, b) /\ ~OLF(a) /\ OLF(b))
                => (~Occ(a) /\ Occ(b))
\* C4 (amended): the same, for an A that is in no other pair of the occlusion set.
C4_HysteresisIsolated ==
    ResolveComplete =>
        \A a, b \in Labels :
            (Alive(a) /\ Alive(b) /\ InPair(a, b) /\ ~OLF(a) /\ OLF(b) /\ OnlyWith(a, b))
                => (~Occ(a) /\ Occ(b))
C4_Witness ==
    /\ ResolveComplete
    /\ \E a, b \in Labels :
           Alive(a) /\ Alive(b) /\ InPair(a, b) /\ ~OLF(a) /\ OLF(b) /\ OnlyWith(a, b)

\* C5 (as claimed): after the resolve loop, of two labels that form a pair of
\* the occlusion set (in one orientation) and are in no other pair, exactly
\* one is marked occluded.
C5_ExactlyOne ==
    ResolveComplete =>
        \A a, b \in Labels :
            (Alive(a) /\ Alive(b) /\ <<a, b>> \in occlusions /\ <<b, a>> \notin occlusions
              /\ OnlyWith(a, b) /\ OnlyWith(b, a))
                => (Occ(a) # Occ(b))

\* C6: a live label whose canOcclude() is false has no entry in the candidate
\* array, is in no broad-phase pair and in no pair of the occlusion set, and
\* is never marked occluded.
C6_NonOccludableSkipped ==
    \A l \in Labels :
        (Alive(l) /\ ~label[l].canOcclude) =>
            /\ l \notin Range(aabbs)
            /\ \A p \in pairs : aabbs[p[1]] # l /\ aabbs[p[2]] # l
            /\ \A p \in occlusions : p[1] # l /\ p[2] # l
            /\ ~Occ(l)
C6_Witness ==
    /\ ResolveComplete
    /\ \E l \in Range(m_labelUnits) : Alive(l) /\ ~label[l].canOcclude
    /\ \E a \in Labels : Alive(a) /\ Occ(a)

\* C7: occlusionSolved() is called only in the finalize loop, that is after
\* every pair of the occlusion set was resolved; no label receives two calls
\* in a pass, and when the loop has ended every live label of m_labelUnits,
\* occludable or not, has received exactly one.
C7_SolvedOnce ==
    /\ \A l \in Labels : label[l].solved <= 1
    /\ (\E l \in Labels : label[l].solved > 0) => (rpc = "finalize" /\ todo = {})
    /\ FinalizeComplete =>
           \A k \in 1..Len(m_labelUnits) :
               Alive(m_labelUnits[k]) => label[m_labelUnits[k]].solved = 1
C7_Witness ==
    /\ FinalizeComplete
    /\ \E a, b \in Range(m_labelUnits) :
           /\ Alive(a) /\ Alive(b) /\ label[a].canOcclude /\ ~label[b].canOcclude
           /\ label[a].solved = 1 /\ label[b].solved = 1
           /\ OLF(a)

\* C8: a call of addTextLabel or addSpriteLabel made while currentZoom - tile.z
\* exceeds LODDiscardFunc(maxZoom, currentZoom) returns null through the LOD
\* test: no label is constructed, nothing is registered on the tile, nothing
\* is appended to the pending queue.
C8_LODAdmission ==
    [][\A w \in Workers :
          (calls'[w] # calls[w] /\ LODOver(w)) =>
              /\ wret'[w] = "lod" /\ wpc'[w] = "idle" /\ wlabel'[w] = 0
              /\ label' = label
              /\ tileLabels' = tileLabels
              /\ m_pendingLabelUnits' = m_pendingLabelUnits]_vars
C8_Witness ==
    \E w \in Workers :
        /\ wret[w] = "lod" /\ calls[w] = 1 /\ wpc[w] = "idle"
        /\ ~Born(LabelId(w, 1)) /\ tileLabels[w] = {}

\* C9: a call of addTextLabel that fails for want of a buffer or because
\* rasterize() returns false returns null and leaves the pending queue, the
\* authoritative list, the tile's labels and the set of live labels unchanged.
C9_FailedCreation ==
    [][\A w \in Workers :
          (calls'[w] # calls[w] /\ wret'[w] \in {"nobuffer", "raster"}) =>
              /\ wpc'[w] = "idle" /\ wlabel'[w] = 0
              /\ m_pendingLabelUnits' = m_pendingLabelUnits
              /\ m_labelUnits' = m_labelUnits
              /\ tileLabels' = tileLabels
              /\ label' = label]_vars
C9_Witness ==
    \E w, v \in Workers :
        /\ wret[w] = "raster" /\ wret[v] = "nobuffer"
        /\ ~Born(LabelId(w, 1)) /\ ~Born(LabelId(v, 1))
        /\ m_pendingLabelUnits # <<>>

\* C10: m_mutex is held by at most one thread, and only by a worker that is at
\* the append of line 52 or by the render thread at the merge of lines 74-76;
\* in the scan, broad-phase, narrow-phase, resolve and finalize steps the
\* render thread does not hold it, nor does a worker in lines 45-47, so a
\* worker waiting at line 51 is never kept out by the render thread's math.
C10_LockScope ==
    /\ Cardinality(m_mutex) <= 1
    /\ \A t \in m_mutex :
           \/ t \in Workers /\ wpc[t] = "emplace"
           \/ t = RenderThread /\ rpc = "merge"
    /\ (rpc \in Math => RenderThread \notin m_mutex)
    /\ \A w \in Workers : wpc[w] = "prepare" => w \notin m_mutex
C10_Witness ==
    /\ rpc = "resolve" /\ todo # {}
    /\ \E w \in Workers : wpc[w] = "emplace" /\ m_mutex = {w}

\* nonzero overlap area of two AABBs
TrueOverlap(a, b) ==
    /\ a.minx < b.maxx /\ b.minx < a.maxx
    /\ a.miny < b.maxy /\ b.miny < a.maxy

InViewOverlap(a, b, res) ==
    /\ Max(Max(a.minx, b.minx), 0) < Min(Min(a.maxx, b.maxx), res[1])
    /\ Max(Max(a.miny, b.miny), 0) < Min(Min(a.maxy, b.maxy), res[2])
Anchors == {buffer[k].at : k \in 1..Len(buffer)}
LineDone == spc = "done" /\ builder = "line" /\ params.visible /\ text # ""
NoShortSegment ==
    \A k \in 1..(Len(geometry) - 1) : ~Short(geometry[k], geometry[k + 1])
\* i is a multiple of the stride s
MultipleOf(i, s) == IF s = 0 THEN i = 0 ELSE i % s = 0

\* C12 (as claimed): buildLine on a line of 9 points without a short segment,
\* with a visible rule and non-empty text, has emitted labels anchored at the
\* point indices 0, 4 and 8 when it returns.
C12_NineAtZeroFourEight ==
    (LineDone /\ Len(geometry) = 9 /\ NoShortSegment) => Anchors = {0, 4, 8}
\* C12 (amended): when buildLine returns for a line of n >= 1 points, it has
\* emitted exactly one label, of type line and from _line[i] to _line[i + 1],
\* for every index i < n - 1 that is a multiple of floor(n / 2) and whose segment
\* is not shorter than minLength, in ascending order; for 9 points without a
\* short segment these are the indices 0 and 4.
C12_LabelsAtStride ==
    (LineDone /\ Len(geometry) >= 1) =>
        /\ Anchors = {i \in 0..(Len(geometry) - 2) :
                         /\ MultipleOf(i, Len(geometry) \div 2)
                         /\ ~Short(geometry[i + 1], geometry[i + 2])}
        /\ Len(buffer) = Cardinality(Anchors)
        /\ \A k \in 1..Len(buffer) :
               /\ buffer[k].type = "line"
               /\ buffer[k].p1 = geometry[buffer[k].at + 1]
               /\ buffer[k].p2 = geometry[buffer[k].at + 2]
               /\ \A j \in 1..(k - 1) : buffer[j].at < buffer[k].at
        /\ ((Len(geometry) = 9 /\ NoShortSegment) => Anchors = {0, 4})
C12_Witness ==
    /\ LineDone /\ Len(geometry) = 9 /\ NoShortSegment
    /\ Len(buffer) = 2 /\ buffer[1].at = 0 /\ buffer[2].at = 4

\* the text the claim names: the explicit source, else the "name" property
Resolved ==
    IF params.textSource # "" THEN params.textSource
    ELSE IF props.has THEN props.name ELSE ""

\* C13: in buildPoint, buildLine and buildPolygon, every label added to the
\* buffer carries the rule's text source when that is non-empty and the
\* feature's "name" otherwise; when the rule is not visible, or that text is
\* empty or the property absent, the builder returns without adding a label.
C13_TextSourceFallback ==
    builder \in {"point", "line", "polygon"} =>
        IF ~params.visible \/ Resolved = ""
        THEN spc = "done" /\ buffer = <<>>
        ELSE \A k \in 1..Len(buffer) : buffer[k].text = Resolved
C13_Witness ==
    /\ spc = "done" /\ builder = "polygon"
    /\ params.visible /\ params.textSource = "" /\ props.has
    /\ Len(buffer) = 1 /\ buffer[1].text = props.name /\ buffer[1].text # ""

\* C14: the value LODDiscardFunc returns for a zoom within 0..maxZoom is at
\* most MAX_LOD, and it does not fall when the current zoom (and with it
\* currentZoom - tileZoom, for a given tile) shrinks: every smaller zoom gets a
\* value at least as large, every larger zoom a value at most as large.
C14_LODMonotoneCapped ==
    lpc = "done" =>
        /\ f_lod <= MAX_LOD
        /\ f_lod >= 0
        /\ \A z \in 0..f_maxZoom :
               /\ z <= f_zoom => LODDiscardFunc(f_maxZoom, z) >= f_lod
               /\ z >= f_zoom => LODDiscardFunc(f_maxZoom, z) <= f_lod
C14_Witness ==
    /\ lpc = "done"
    /\ f_lod = MAX_LOD /\ f_zoom > 0
    /\ \E z \in 0..f_maxZoom : z > f_zoom /\ LODDiscardFunc(f_maxZoom, z) < f_lod
    /\ f_discard

\* C15 (as claimed): no label is dereferenced through the raw Label* of an
\* AABB's user data, in the narrow phase or in the resolve loop, after it was
\* freed.
C15_RawPointersAlive == ~dangling

C17_NoVisibleOverlap ==
    ResolveComplete =>
        \A p \in occlusions :
            (Alive(p[1]) /\ Alive(p[2])) => (Occ(p[1]) \/ Occ(p[2]))

\* C18 (as claimed): whenever a step marks a label occluded, the label is
\* occludable and the occlusion set of the pass holds a pair of it with a
\* label that was not occluded last frame.
C18_OccludedWithCause ==
    [][\A l \in Labels :
          (label'[l].occluded /\ ~label[l].occluded) =>
              /\ label[l].canOcclude
              /\ \E p \in occlusions :
                     \/ p[1] = l /\ ~label[p[2]].occludedLastFrame
                     \/ p[2] = l /\ ~label[p[1]].occludedLastFrame]_vars

\* labels handed to the manager that are in its authoritative list or were pruned
Merged(l) ==
    /\ Born(l) /\ l \notin Range(m_pendingLabelUnits)
    /\ \A w \in Workers : wlabel[w] # l

\* C19 (as claimed): whenever the body of buildLine's loop runs, the indices i
\* and i + 1 it reads are inside the line and the stride that advances i is
\* positive, so the loop reads no point outside the line and comes to an end.
C19_TerminatesInBounds ==
    (spc = "line" /\ li < LoopBound(geometry)) =>
        (li + 1 < Len(geometry) /\ skipOffset > 0)

\* C20: during the scan and when it has ended, every merged unit whose label
\* is alive is in m_labelUnits exactly once and was not pruned; when the scan
\* has ended every such label that can occlude was examined, so it has exactly
\* one AABB in the candidate array.
C20_OnlyDeadPruned ==
    rpc = "scan" =>
        /\ \A l \in Labels :
               (Merged(l) /\ Alive(l)) => (Count(m_labelUnits, l) = 1 /\ l \notin pruned)
        /\ ScanComplete =>
               \A l \in Labels :
                   (Merged(l) /\ Alive(l) /\ label[l].canOcclude) => Count(aabbs, l) = 1
C20_Witness ==
    /\ ScanComplete
    /\ Cardinality(scanDead) = 1 /\ Len(m_labelUnits) = 2
    /\ \A k \in 1..Len(m_labelUnits) : Alive(m_labelUnits[k])
    /\ Len(aabbs) = 2

====
